---------------------------- MODULE Spec2Model ----------------------------
(***************************************************************************)
(* A model of the Stop object of ivtt2txt (src/__init__.py): the           *)
(* subscription handshake (_subscribe), the receive loop with its          *)
(* keepalive (fetch) and the record extraction (get_data); of the name     *)
(* resolution busstop2id of both modules; and of the threaded variant      *)
(* ImhdBa.get_arrival_time (src/ivtt2txt.py) with the threads its on_open  *)
(* starts.                                                                 *)
(*                                                                         *)
(* Time is kept as the age, in whole seconds, of the two timestamps the    *)
(* code compares against time.time(): self.timer and response_timer.  An   *)
(* age saturates one second past the threshold it is compared with, which  *)
(* is all the code can tell apart.  Time passes only where the code        *)
(* blocks (ws.recv, the caller between two calls) or sleeps.  While        *)
(* _subscribe runs the age of self.timer is not kept: every call of        *)
(* _subscribe is followed by self.timer = time.time().                     *)
(*                                                                         *)
(* The server and the network are the environment: which frame arrives     *)
(* next, when the push connection is lost and in which of the two ways a   *)
(* lost connection makes ws.send fail, whether the polling GET sets the    *)
(* "io" cookie.  The HTTP requests of the handshake themselves are taken   *)
(* to answer.                                                              *)
(*                                                                         *)
(* A Python str is the sequence of its characters, so that the body of     *)
(* the subscribe POST (the frame and its length prefix) is built as        *)
(* lines 203-207 build it.                                                 *)
(***************************************************************************)
EXTENDS Integers, Sequences, FiniteSets, TLC

VARIABLES
    pc,          \* position of the single flow of control
    op,          \* the public method the caller is in: "none", "fetch", "get_data"
    subFrom,     \* call site of the running _subscribe: "first", "send", "recv"
                 \* ("none" when none runs)
    hsLog,       \* handshake steps performed by the running/last _subscribe
    hasWs,       \* 'ws' in dir(self)
    chan,        \* state of the connection self.ws refers to
    io,          \* _subscribe's io: the session id of the cookie
    sidLog,      \* the session ids that the requests of the running
                 \* _subscribe carried, from step 3 on
    busstopid,   \* self.busstopid, a str
    reqdata,     \* _subscribe's reqdata as POSTed: the body of step 4
    sinceTimer,  \* time.time() - self.timer, saturating
    sinceResp,   \* time.time() - response_timer, saturating
    watch,       \* fetch's argument platform
    lastRecv,    \* what ws.recv() handed over in this turn of the loop, or
                 \* to _subscribe after "2probe"
    data,        \* self._data: platform -> cached batch (the list under 'tab')
    accepted,    \* history: platforms for which a frame has been accepted
    args,        \* get_data's conn as passed (raw) and as coerced (conn),
                 \* and resolve_names
    idx,         \* get_data's position in the batch
    now,         \* get_data's last reading of time.time(), in milliseconds
    result,      \* get_data's result list
    raised,      \* the exception the last call let reach its caller
    query,       \* the module global 'query' of src/ivtt2txt.py (set by its
                 \* __main__ only)
    call,        \* busstop2id: the module called, its argument, the text
                 \* searched for and the anchors selected from the answer
    ret,         \* busstop2id: the value returned
    locals,      \* ImhdBa.get_arrival_time: nastupiste, the platform list
                 \* of the main page (valid) and its text (platform), io
    wire,        \* ImhdBa: the requests and frames sent by the running call
    app,         \* ImhdBa: the WebSocketApp ws of the running/last call
    left,        \* ImhdBa: seconds left of the sleep the main flow is in
    threads,     \* ImhdBa: the threads started by on_open, oldest first
    msgcounter,  \* ImhdBa: self.msgcounter
    collected    \* ImhdBa: self.result

vars == <<pc, op, subFrom, hsLog, hasWs, chan, io, sidLog,
          busstopid, reqdata,
          sinceTimer, sinceResp, watch,
          lastRecv, data, accepted, args, idx, now, result, raised,
          query, call, ret,
          locals, wire, app, left, threads, msgcounter, collected>>

frameVars == <<busstopid, reqdata>>
sessVars == <<io, sidLog, frameVars>>
subVars  == <<subFrom, hsLog, hasWs, chan, sessVars>>
timeVars == <<sinceTimer, sinceResp>>
getVars  == <<args, idx, now, result>>

\* the state of the module functions and of the class ImhdBa, which no
\* method of Stop reads or writes
resolveVars == <<query, call, ret>>
threadVars == <<locals, wire, app, left, threads, msgcounter, collected>>
others == <<resolveVars, threadVars>>

\* the state of a Stop object but for pc, op and raised
stopVars == <<subVars, timeVars, watch, lastRecv, data, accepted, getVars>>

---------------------------------------------------------------------------
(* Bounds of the model *)

NumPlatforms == 2
Platforms == 1 .. NumPlatforms

\* calls of ImhdBa.get_arrival_time that get as far as on_open
MaxCalls == 2

\* the largest stop id a Stop is constructed for
MaxStopId == 120

(* Program constants *)

KeepaliveInterval == 30
SilenceBound == 3
FetchSleep == 3
ResubSleep == 3
CookieSleep == 2
UpgradeSleep == 1
MsPerSecond == 1000

BusStopId == 93
OtherStopId == BusStopId + 1

TimerCap == KeepaliveInterval + 1
RespCap == SilenceBound + 1

\* the object has no attribute timer: line 239 has not run yet
NoTimer == -1

Min(a, b) == IF a < b THEN a ELSE b

(* The age a after d more seconds. *)
Later(a, d, cap) == Min(a + d, cap)

\* the age of self.timer after d more seconds
TimerLater(a, d) == IF a = NoTimer THEN NoTimer ELSE Later(a, d, TimerCap)

\* the cookie io of a polling answer: missing, empty, or a session id
SessionIds == {"sidA", "sidB"}
NoSession == ""
Cookies == {"<none>", NoSession} \cup SessionIds

---------------------------------------------------------------------------
(* Python values *)

PyInt(n) == [t |-> "int", v |-> n]
\* the str holding the decimal numeral of n
PyStr(n) == [t |-> "str", v |-> n]

\* str(x) of an int or of a str
Str(x) == [t |-> "str", v |-> x.v]

(* A destination field of a record: the id the server sent (an int, 0 for  *)
(* none), or what get_data stored over it.                                 *)
DestId(n) == [t |-> "int", id |-> n, name |-> ""]
DestDict(n, s) == [t |-> "dict", id |-> n, name |-> s]
DestName(s) == [t |-> "str", id |-> 0, name |-> s]
EmptyDict == [t |-> "dict", id |-> 0, name |-> ""]

\* the server's table of stop names (op=gsn)
StopNames == (5 :> "Hlavna stanica") @@ (7 :> "Kosicka")

\* the argument conn of get_data as the caller passes it: one value, or a
\* list
Scalar(x) == [list |-> FALSE, items |-> <<x>>]
List(xs) == [list |-> TRUE, items |-> xs]

\* no call of ImhdBa.get_arrival_time is running
NoLocals ==
    [raw |-> 0, nastupiste |-> <<>>, linka |-> <<>>, valid |-> <<>>,
     platform |-> <<>>, io |-> ""]

\* no call of get_data is running
NoArgs == [raw |-> List(<<>>), conn |-> <<>>, resolve |-> FALSE]

(* A record of a batch as it arrives: no toffset key. *)
Record(linka, cas, ciel, last) ==
    [linka |-> PyStr(linka), cas |-> cas, cielZastavka |-> DestId(ciel),
     lastZ |-> DestId(last), toffset |-> <<>>]


---------------------------------------------------------------------------
(* Frames of the push channel, as json.loads sees them after the two-      *)
(* character prefix is cut off (line 257-258).                             *)
(*   nonjson  not JSON ("3", "3probe", ...): json.loads raises ValueError  *)
(*   short    JSON with no element [1]: table_data[1] raises               *)
(*   scalar   element [1] is a number or null: "in" raises TypeError       *)
(*   list     element [1] is a list of other things: "in" answers False    *)
(*   data     element [1] maps keys "<stop>.<platform>" to batches         *)

Key(stop, platform) == <<stop, platform>>

NoMap == <<>>
NonJson == [kind |-> "nonjson", map |-> NoMap]
ShortFrame == [kind |-> "short", map |-> NoMap]
ScalarFrame == [kind |-> "scalar", map |-> NoMap]
ListFrame == [kind |-> "list", map |-> NoMap]
DataFrame(m) == [kind |-> "data", map |-> m]

\* the key fetch looks for: '{0}.{1}'.format(self.busstopid, platform)
WatchKey(platform) == Key(BusStopId, platform)

\* '<key>' in table_data[1], for the frames for which it answers
HasKey(frame, platform) ==
    frame.kind = "data" /\ WatchKey(platform) \in DOMAIN frame.map

Keys == {Key(BusStopId, p) : p \in Platforms} \cup {Key(OtherStopId, 1)}

\* every mapping from some of the keys to the given batches
Maps(batches) == UNION {[K -> batches] : K \in SUBSET Keys}

\* nothing received yet in this turn of the loop
NoRecv == [seen |-> "none", batch |-> <<>>]

Frames(batches) ==
    {NonJson, ShortFrame, ScalarFrame, ListFrame}
        \cup {DataFrame(m) : m \in Maps(batches)}

---------------------------------------------------------------------------
(* Leaving a public method *)

\* an exception leaves the running method for the caller
Raise(e) == /\ pc' = "raise"
            /\ raised' = e

\* the caller has the result or the exception: locals are gone
Finish ==
    /\ pc \in {"raise", "done"}
    /\ pc' = "idle"
    /\ op' = "none"
    /\ watch' = 0
    /\ lastRecv' = NoRecv
    /\ sinceResp' = 0
    /\ idx' = 0
    /\ args' = NoArgs
    /\ locals' = NoLocals
    /\ wire' = <<>>
    /\ UNCHANGED <<resolveVars, app, left, threads, msgcounter, collected>>
    /\ UNCHANGED <<subVars, sinceTimer, data, accepted, now, result, raised>>

---------------------------------------------------------------------------
(* Python's str *)

\* Python's str as the sequence of its characters
DigitChars == <<"0", "1", "2", "3", "4", "5", "6", "7", "8", "9">>

RECURSIVE StrOfInt(_)
\* str(n) for n >= 0
StrOfInt(n) ==
    IF n < 10 THEN <<DigitChars[n + 1]>>
    ELSE Append(StrOfInt(n \div 10), DigitChars[(n % 10) + 1])

\* s.replace(old, ''), old one character
ReplaceWithEmpty(s, old) == SelectSeq(s, LAMBDA c : c # old)

---------------------------------------------------------------------------
(* Stop._subscribe, lines 157-225 *)

\* the literal of line 203 before and after its placeholder {0}
FrameHead == <<"4", "2", "[", "\"", "r", "e", "q", "\"", ",", "[">>
FrameTail == <<",", "[", "\"", "*", "\"", "]", "]", "]">>

\* line 203: '42["req",[{0},["*"]]]'.format(self.busstopid,
\* self._valid_platforms); the literal has no placeholder {1}
SubscribeFrame(id) == FrameHead \o id \o FrameTail

\* the packet type "42" of the frame
PacketType == <<"4", "2">>

\* LengthPrefixed, were the length that of the payload after the packet
\* type
LengthPrefixedPayload(s) ==
    StrOfInt(Len(s) - Len(PacketType)) \o <<":">> \o s

\* line 207: str(len(reqdata)) + ':' + reqdata, len counting characters
LengthPrefixed(s) == StrOfInt(Len(s)) \o <<":">> \o s

\* lines 203-207: the body of the POST
ReqData(id) == LengthPrefixed(ReplaceWithEmpty(SubscribeFrame(id), " "))

\* reqdata before line 203 has run
NoBody == <<>>

\* step 1: GET of the transport script (line 164)
GetScript ==
    /\ pc = "hs1"
    /\ pc' = "hs2"
    /\ hsLog' = <<1>>
    /\ UNCHANGED others
    /\ UNCHANGED <<op, subFrom, hasWs, chan, sessVars, timeVars, watch,
                   lastRecv, data, accepted, getVars, raised>>

\* IoSet, were the test of line 185 "io is not None"
IoSetNotNone(cookie) == cookie # "<none>"

\* lines 184-185: io = self.r.cookies.get('io', None), and "if io"
IoSet(cookie) == cookie # "<none>" /\ cookie # NoSession

\* step 2: the polling GETs, until the answer carries the io cookie
\* (lines 168-188)
PollSession ==
    /\ pc = "hs2"
    /\ \E cookie \in Cookies :
          IF IoSet(cookie)
          THEN /\ pc' = "hs3"
               /\ hsLog' = Append(hsLog, 2)
               /\ io' = cookie
               /\ UNCHANGED sinceResp
          ELSE /\ pc' = "hs2"
               /\ sinceResp' = Later(sinceResp, CookieSleep, RespCap)
               /\ UNCHANGED <<hsLog, io>>
    /\ UNCHANGED others
    /\ UNCHANGED <<op, subFrom, hasWs, chan, sidLog, sinceTimer, watch,
                   lastRecv, data, accepted, getVars, raised>>
    /\ UNCHANGED frameVars

\* step 3: the polling GET that carries the session id (line 193)
ConfirmSession ==
    /\ pc = "hs3"
    /\ pc' = "hs4"
    /\ hsLog' = Append(hsLog, 3)
    /\ sidLog' = <<io>>
    /\ UNCHANGED frameVars
    /\ UNCHANGED others
    /\ UNCHANGED <<op, subFrom, hasWs, chan, io, timeVars, watch, lastRecv,
                   data, accepted, getVars, raised>>

\* step 4: the POST of the subscribe frame (lines 203-217)
PostSubscribe ==
    /\ pc = "hs4"
    /\ pc' = "hs5"
    /\ hsLog' = Append(hsLog, 4)
    /\ reqdata' = ReqData(busstopid)
    /\ sidLog' = Append(sidLog, io)
    /\ UNCHANGED busstopid
    /\ UNCHANGED others
    /\ UNCHANGED <<op, subFrom, hasWs, chan, io, timeVars, watch, lastRecv,
                   data, accepted, getVars, raised>>

\* step 5, line 219, right-hand side: create_connection opens the new
\* connection, self.ws still being the one of the last handshake (if any)
CreateConnection ==
    /\ pc = "hs5"
    /\ pc' = "bind"
    /\ sidLog' = Append(sidLog, io)
    /\ UNCHANGED frameVars
    /\ UNCHANGED others
    /\ UNCHANGED <<op, subFrom, hsLog, hasWs, chan, io, timeVars, watch,
                   lastRecv, data, accepted, getVars, raised>>

\* step 5, lines 219-221: self.ws is bound to the new connection (the one
\* it was bound to is let go of, and the reference count closes it), and
\* send('2probe')
Connect ==
    /\ pc = "bind"
    /\ pc' = "ack"
    /\ hasWs' = TRUE
    /\ chan' = "open"
    /\ UNCHANGED others
    /\ UNCHANGED <<op, subFrom, hsLog, sessVars, timeVars, watch, lastRecv,
                   data, accepted, getVars, raised>>

\* what the server may answer "2probe" with: the acknowledgment, or any
\* other frame (a pong, a board)
AckFrames == {"3probe", "other"}

\* step 5, second half: recv() of the acknowledgment, sleep(1), send('5')
\* (lines 223-225); a connection lost meanwhile raises out of _subscribe
Upgrade ==
    /\ pc = "ack"
    /\ IF chan = "open"
       THEN /\ \E frame \in AckFrames :
                  lastRecv' = [seen |-> frame, batch |-> <<>>]
            /\ pc' = "subscribed"
            /\ hsLog' = Append(hsLog, 5)
            /\ sinceResp' = Later(sinceResp, UpgradeSleep, RespCap)
            /\ UNCHANGED raised
       ELSE /\ Raise("WebSocketException")
            /\ UNCHANGED <<hsLog, sinceResp, lastRecv>>
    /\ io' = NoSession
    /\ sidLog' = <<>>
    /\ reqdata' = NoBody
    /\ UNCHANGED busstopid
    /\ UNCHANGED others
    /\ UNCHANGED <<op, subFrom, hasWs, chan, sinceTimer, watch, data,
                   accepted, getVars>>

---------------------------------------------------------------------------
(* Stop.fetch, lines 227-273 *)

\* lines 236-241: subscribe on the first call only
EnterFetch ==
    IF ~hasWs
    THEN pc' = "hs1" /\ subFrom' = "first"
    ELSE pc' = "sleep" /\ UNCHANGED subFrom

\* the caller calls fetch(platform)
CallFetch ==
    /\ pc = "idle"
    /\ \E p \in Platforms : watch' = p
    /\ op' = "fetch"
    /\ raised' = "none"
    /\ EnterFetch
    /\ UNCHANGED others
    /\ UNCHANGED <<hsLog, hasWs, chan, sessVars, timeVars, lastRecv, data,
                   accepted, getVars>>

\* what follows each call of _subscribe: line 239, lines 253-255, 267-269
Subscribed ==
    /\ pc = "subscribed"
    /\ IF subFrom = "first"
       THEN /\ pc' = "sleep"
            /\ sinceTimer' = 0
            /\ UNCHANGED sinceResp
       ELSE /\ pc' = "loop"
            /\ sinceTimer' = Later(0, ResubSleep, TimerCap)
            /\ sinceResp' = Later(sinceResp, ResubSleep, RespCap)
    /\ subFrom' = "none"
    /\ UNCHANGED others
    /\ UNCHANGED <<op, hsLog, hasWs, chan, sessVars, watch, lastRecv, data,
                   accepted, getVars, raised>>

\* lines 242-244: sleep(3), then response_timer = time.time()
Sleep ==
    /\ pc = "sleep"
    /\ pc' = "loop"
    /\ sinceTimer' = TimerLater(sinceTimer, FetchSleep)
    /\ sinceResp' = 0
    /\ UNCHANGED others
    /\ UNCHANGED <<op, subVars, watch, lastRecv, data, accepted, getVars,
                   raised>>

\* line 246: the head of the loop; reading self.timer raises
\* AttributeError when no handshake has got as far as line 239
KeepaliveDue == sinceTimer > KeepaliveInterval

LoopHead ==
    /\ pc = "loop"
    /\ IF sinceTimer = NoTimer
       THEN Raise("AttributeError") /\ UNCHANGED sinceTimer
       ELSE IF KeepaliveDue
       THEN pc' = "keepalive" /\ sinceTimer' = 0 /\ UNCHANGED raised
       ELSE pc' = "recv" /\ UNCHANGED <<sinceTimer, raised>>
    /\ lastRecv' = NoRecv
    /\ UNCHANGED others
    /\ UNCHANGED <<op, subVars, sinceResp, watch, data, accepted, getVars>>

\* what ws.send does on the connection: "ok", or the exception it raises.
\* A peer that is gone makes the socket raise BrokenPipeError or
\* ConnectionResetError (both OSError); a socket that is already closed
\* makes the library raise WebSocketConnectionClosedException, which is
\* not an OSError (src/ivtt2txt.py line 217 catches it by that name).
SendOutcome(c) ==
    CASE c = "open" -> "ok"
      [] c = "reset" -> "OSError"
      [] OTHER -> "WebSocketConnectionClosedException"

\* the exceptions of ws.send that line 251 catches
CaughtOnSend(e) == e = "OSError"

\* lines 249-255: send('2'), resubscribe on OSError
Keepalive ==
    /\ pc = "keepalive"
    /\ LET e == SendOutcome(chan) IN
       IF e = "ok"
       THEN pc' = "recv" /\ UNCHANGED <<subFrom, raised>>
       ELSE IF CaughtOnSend(e)
            THEN pc' = "hs1" /\ subFrom' = "send" /\ UNCHANGED raised
            ELSE Raise(e) /\ UNCHANGED subFrom
    /\ UNCHANGED others
    /\ UNCHANGED <<op, hsLog, hasWs, chan, sessVars, timeVars, watch,
                   lastRecv, data, accepted, getVars>>

\* line 260: the silence test, made once a frame has been parsed
Silent == sinceResp > SilenceBound

\* Store, writing every platform of this stop the frame has an entry for
StoreAll(d, platform, frame) ==
    IF frame.kind = "data"
    THEN [q \in DOMAIN d \cup {p \in Platforms : HasKey(frame, p)} |->
             IF HasKey(frame, q) THEN frame.map[WatchKey(q)] ELSE d[q]]
    ELSE d

\* Store, binding self._data to a new dict that holds the one entry
StoreRebinds(d, platform, frame) ==
    IF HasKey(frame, platform)
    THEN [q \in {platform} |-> frame.map[WatchKey(platform)]]
    ELSE d

\* lines 271-273: the frame's entry for the watched key replaces the cache
Store(d, platform, frame) ==
    IF HasKey(frame, platform)
    THEN [q \in DOMAIN d \cup {platform} |->
             IF q = platform THEN frame.map[WatchKey(platform)] ELSE d[q]]
    ELSE d

\* what a frame is to the running fetch: its kind, a data frame being a
\* "hit" when it holds the watched key and a "miss" when not, and the batch
\* it holds under that key
Seen(frame, platform) ==
    IF frame.kind # "data" THEN [seen |-> frame.kind, batch |-> <<>>]
    ELSE IF HasKey(frame, platform)
         THEN [seen |-> "hit", batch |-> frame.map[WatchKey(platform)]]
         ELSE [seen |-> "miss", batch |-> <<>>]

\* OnValueError, were the ValueError left to the bare except of line 265
OnValueErrorResubscribes ==
    /\ pc' = "hs1"
    /\ subFrom' = "recv"
    /\ UNCHANGED <<data, accepted, sinceResp, raised>>

\* lines 262-264: json.loads raised ValueError; logged, continue
OnValueError ==
    /\ pc' = "loop"
    /\ UNCHANGED <<subFrom, data, accepted, sinceResp, raised>>

\* lines 256-273: one turn of the receive loop in which ws.recv() hands
\* over the given frame
RecvFrame(frame) ==
    /\ pc = "recv"
    /\ chan = "open"
    /\ lastRecv' = Seen(frame, watch)
    /\ CASE frame.kind = "nonjson" ->
              OnValueError
         [] frame.kind # "nonjson" /\ Silent ->
              \* line 261
              /\ pc' = "return"
              /\ UNCHANGED <<subFrom, data, accepted, sinceResp, raised>>
         [] frame.kind \in {"short", "scalar"} /\ ~Silent ->
              \* line 271 raises outside the try
              /\ Raise(IF frame.kind = "short" THEN "IndexError"
                                               ELSE "TypeError")
              /\ UNCHANGED <<subFrom, data, accepted, sinceResp>>
         [] OTHER ->
              /\ pc' = "loop"
              /\ data' = Store(data, watch, frame)
              /\ accepted' = IF HasKey(frame, watch)
                             THEN accepted \cup {watch} ELSE accepted
              /\ sinceResp' = IF HasKey(frame, watch) THEN 0 ELSE sinceResp
              /\ UNCHANGED <<subFrom, raised>>
    /\ UNCHANGED others
    /\ UNCHANGED <<op, hsLog, hasWs, chan, sessVars, sinceTimer, watch,
                   getVars>>

Recv(frames) == \E frame \in frames : RecvFrame(frame)

\* RecvError, were there no bare except: the exception leaves fetch
RecvErrorRaises ==
    /\ pc = "recv"
    /\ chan # "open"
    /\ Raise("WebSocketException")
    /\ UNCHANGED others
    /\ UNCHANGED <<op, subVars, timeVars, watch, lastRecv, data, accepted,
                   getVars>>

\* lines 265-269: ws.recv() raises, the bare except resubscribes
\* (self.timer is not read again before line 267 sets it: its age is
\* dropped here)
RecvError ==
    /\ pc = "recv"
    /\ chan # "open"
    /\ pc' = "hs1"
    /\ subFrom' = "recv"
    /\ sinceTimer' = 0
    /\ UNCHANGED others
    /\ UNCHANGED <<op, hsLog, hasWs, chan, sessVars, sinceResp, watch,
                   lastRecv, data, accepted, getVars, raised>>

\* line 261's return: back in the caller, or in get_data (line 294)
Return ==
    /\ pc = "return"
    /\ sinceResp' = 0
    /\ lastRecv' = NoRecv
    /\ IF op = "get_data"
       THEN pc' = "lookup" /\ UNCHANGED <<op, watch>>
       ELSE pc' = "idle" /\ op' = "none" /\ watch' = 0
    /\ UNCHANGED others
    /\ UNCHANGED <<subVars, sinceTimer, data, accepted, getVars, raised>>

---------------------------------------------------------------------------
(* The environment *)

\* a second passes where the code blocks: in recv, and in the caller
\* between two calls (where response_timer, a local of fetch, is gone)
Tick ==
    /\ \/ pc \in {"recv", "ack"} /\ chan = "open"
       \/ pc = "idle" /\ hasWs
    /\ sinceTimer' = IF pc = "ack" THEN sinceTimer
                                   ELSE TimerLater(sinceTimer, 1)
    /\ sinceResp' = IF pc = "idle" THEN sinceResp
                                   ELSE Later(sinceResp, 1, RespCap)
    /\ UNCHANGED others
    /\ UNCHANGED <<pc, op, subVars, watch, lastRecv, data, accepted,
                   getVars, raised>>

\* the push connection is lost
ConnLost ==
    /\ chan = "open"
    /\ pc \in {"idle", "recv", "ack", "loop"}
    /\ chan' \in {"reset", "closed"}
    /\ UNCHANGED others
    /\ UNCHANGED <<pc, op, subFrom, hsLog, hasWs, sessVars, timeVars, watch,
                   lastRecv, data, accepted, getVars, raised>>

---------------------------------------------------------------------------
(* Stop.get_data, lines 277-305, and destid2destname, lines 96-113 *)

\* lines 288-291: conn becomes a list of str either way
Coerce(conn) == [i \in DOMAIN conn.items |-> Str(conn.items[i])]

\* line 297: x['linka'] in conn
InConn(linka, conn) == \E i \in DOMAIN conn : conn[i] = linka

\* int(a / b) for b > 0: the quotient cut off towards zero
TruncDiv(a, b) == IF a >= 0 THEN a \div b ELSE -((-a) \div b)

\* TOffset, rounding down instead of towards zero
TOffsetFloor(cas, t) == (cas - t) \div MsPerSecond

\* line 298: int(int(x['cas']) / 1000 - time.time()), the reading t of
\* time.time() taken in milliseconds
TOffset(cas, t) == TruncDiv(cas - t, MsPerSecond)

\* destid2destname has no answer: the request or the parsing of the reply
\* raised
Failure == [t |-> "error", id |-> 0, name |-> ""]

\* destid2destname(v), lines 104-113: the dict {id: name} the lookup
\* endpoint answers for an id it knows; for anything else (an unknown id,
\* the str of a dict stored by an earlier call) the server decides: no
\* entry, or a reply the function cannot read
Destid2destname(v) ==
    IF v.t = "int" /\ v.id \in DOMAIN StopNames
    THEN {DestDict(v.id, StopNames[v.id])}
    ELSE {EmptyDict, Failure}

\* lines 301-303: what one destination field may become
Resolved(v, resolve) ==
    IF resolve /\ v # DestId(0) THEN Destid2destname(v) ELSE {v}

\* the caller calls get_data(platform, conn, force_update, resolve_names)
CallGetData(conns, forces, resolves) ==
    /\ pc = "idle"
    /\ \E p \in Platforms : watch' = p
    /\ \E c \in conns, r \in resolves :
          args' = [raw |-> c, conn |-> Coerce(c), resolve |-> r]
    /\ op' = "get_data"
    /\ raised' = "none"
    /\ result' = <<>>
    /\ idx' = 0
    /\ \E force \in forces :
          IF force THEN EnterFetch
                   ELSE pc' = "lookup" /\ UNCHANGED subFrom
    /\ UNCHANGED others
    /\ UNCHANGED <<hsLog, hasWs, chan, sessVars, timeVars, lastRecv, data,
                   accepted, now>>

\* line 296: self._data[platform]['tab']
Lookup ==
    /\ pc = "lookup"
    /\ IF watch \in DOMAIN data
       THEN pc' = "extract" /\ idx' = 1 /\ UNCHANGED raised
       ELSE Raise("KeyError") /\ UNCHANGED idx
    /\ UNCHANGED others
    /\ UNCHANGED <<op, subVars, timeVars, watch, lastRecv, data, accepted,
                   args, now, result>>

\* the batch with its i-th record replaced
WithRecord(d, platform, i, x) ==
    [d EXCEPT ![platform] = [@ EXCEPT ![i] = x]]

\* lines 296-305: the loop body for one record, or the return after the last
Extract(nows) ==
    /\ pc = "extract"
    /\ IF idx > Len(data[watch])
       THEN /\ pc' = "done"
            /\ UNCHANGED <<data, idx, now, result, raised>>
       ELSE LET x == data[watch][idx] IN
            IF ~InConn(x.linka, args.conn)
            THEN /\ pc' = "extract"
                 /\ idx' = idx + 1
                 /\ UNCHANGED <<data, now, result, raised>>
            ELSE \E t \in nows :
                 \E ciel \in Resolved(x.cielZastavka, args.resolve) :
                 \E last \in Resolved(x.lastZ, args.resolve) :
                 LET x1 == [x EXCEPT !.toffset = <<TOffset(x.cas, t)>>]
                     x2 == [x1 EXCEPT !.cielZastavka = ciel]
                     x3 == [x2 EXCEPT !.lastZ = last]
                 IN  /\ now' = t
                     /\ IF ciel = Failure
                        THEN /\ data' = WithRecord(data, watch, idx, x1)
                             /\ Raise("DestinationLookupFailed")
                             /\ UNCHANGED <<idx, result>>
                        ELSE IF last = Failure
                        THEN /\ data' = WithRecord(data, watch, idx, x2)
                             /\ Raise("DestinationLookupFailed")
                             /\ UNCHANGED <<idx, result>>
                        ELSE /\ data' = WithRecord(data, watch, idx, x3)
                             /\ result' = Append(result, x3)
                             /\ idx' = idx + 1
                             /\ pc' = "extract"
                             /\ UNCHANGED raised
    /\ UNCHANGED others
    /\ UNCHANGED <<op, subVars, timeVars, watch, lastRecv, accepted, args>>

---------------------------------------------------------------------------
(* busstop2id, src/__init__.py lines 60-74 and src/ivtt2txt.py lines 44-59 *)

\* the two modules that define busstop2id
Modules == {"__init__", "ivtt2txt"}

\* the site's search: the ids of the stops that match the text searched
\* for ("Hranic" is the ambiguous name of the NoMatch docstring)
SiteMatches ==
    ("Kosicka" :> {BusStopId}) @@ ("Hranicna" :> {41}) @@ ("Hranic" :> {41, 42})
        @@ ("Nam. hraniciarov" :> {42}) @@ ("Zzz" :> {})

Names == DOMAIN SiteMatches

\* the name 'query' is not bound in the module's globals
Unbound == "<unbound>"

\* the anchors ".cestovny_poriadok_zastavkova_tabula > a" of the answer, as
\* the hrefs' parameter z: the site links the timetable of a stop only
\* when the search has found exactly one ("Multiple matches for string or
\* invalid name?" is what the code makes of a page without the anchor)
SearchPage(text) ==
    LET m == SiteMatches[text] IN
    IF Cardinality(m) = 1 THEN <<[z |-> CHOOSE id \in m : TRUE]>> ELSE <<>>

NoCall == [module |-> "", busstop |-> "", text |-> "", anchors |-> <<>>]
NoRet == <<>>

\* the caller calls busstop2id(busstop) of one of the modules
CallBusstop2id(modules, names) ==
    /\ pc = "idle"
    /\ \E m \in modules, b \in names :
          call' = [module |-> m, busstop |-> b, text |-> "", anchors |-> <<>>]
    /\ op' = "busstop2id"
    /\ pc' = "search"
    /\ raised' = "none"
    /\ ret' = NoRet
    /\ UNCHANGED <<stopVars, threadVars, query>>

\* the text the GET searches for: the parameter busstop in
\* src/__init__.py (line 66), the global query in src/ivtt2txt.py (line 50)
SearchText(c, q) == IF c.module = "ivtt2txt" THEN q ELSE c.busstop

\* the GET of the search page; reading an unbound global raises NameError
Search ==
    /\ pc = "search"
    /\ LET text == SearchText(call, query) IN
       IF text = Unbound
       THEN Raise("NameError") /\ UNCHANGED call
       ELSE /\ pc' = "select"
            /\ call' = [call EXCEPT !.text = text,
                                    !.anchors = SearchPage(text)]
            /\ UNCHANGED raised
    /\ UNCHANGED <<op, stopVars, threadVars, query, ret>>

\* the id of the first anchor: an int in src/__init__.py (line 74), the
\* str the pattern matched in src/ivtt2txt.py (line 59)
IdOf(c) ==
    IF c.module = "ivtt2txt" THEN PyStr(c.anchors[1].z)
                             ELSE PyInt(c.anchors[1].z)

\* select(...)[0]['href'], the pattern's group 1; IndexError on a page
\* without the anchor becomes NoMatch
Select ==
    /\ pc = "select"
    /\ IF call.anchors = <<>>
       THEN Raise("NoMatch") /\ UNCHANGED ret
       ELSE pc' = "done" /\ ret' = <<IdOf(call)>> /\ UNCHANGED raised
    /\ UNCHANGED <<op, stopVars, threadVars, query, call>>

---------------------------------------------------------------------------
(* ImhdBa.get_arrival_time, src/ivtt2txt.py lines 104-252 *)

RECURSIVE JoinInts(_)
\* ','.join of the numerals
JoinInts(ns) ==
    IF ns = <<>> THEN <<>>
    ELSE IF Len(ns) = 1 THEN StrOfInt(ns[1])
    ELSE StrOfInt(ns[1]) \o <<",">> \o JoinInts(Tail(ns))

\* line 136: what is left of the page's line "nastupiste=[1,2,11];" after
\* split('=')[1].replace(';','') (src/__init__.py line 152 reads the same
\* line)
PlatformText(valid) == <<"[">> \o JoinInts(valid) \o <<"]">>

\* a in b, for two str: a is a substring of b
IsIn(a, b) ==
    \E i \in 0 .. (Len(b) - Len(a)) : SubSeq(b, i + 1, i + Len(a)) = a

StatusOk == 200
PostDelay == 2
ReturnDelay == 1
ProbeDelay == 1
UpgradeDelay == 10
KeepaliveSleep == 30
CounterSlack == 2

\* the session id of the io cookie
SessionId == "sid"

\* the threads whose WebSocketApp is x see it become y
WsBecomes(thr, x, y) ==
    [i \in DOMAIN thr |->
        IF thr[i].ws = x THEN [thr[i] EXCEPT !.ws = y] ELSE thr[i]]

\* the caller calls get_arrival_time(busstopid, linka, nastupiste) for a
\* stop whose platforms are valid; lines 117-130
CallGetArrivalTime(stops, routes, requests) ==
    /\ pc = "idle"
    /\ Len(threads) < MaxCalls
    /\ \E valid \in stops, linka \in routes, n \in requests :
          locals' = [NoLocals EXCEPT !.raw = n, !.nastupiste = StrOfInt(n),
                                     !.linka = <<StrOfInt(linka)>>,
                                     !.valid = valid]
    /\ op' = "get_arrival_time"
    /\ pc' = "page"
    /\ raised' = "none"
    /\ msgcounter' = 0
    /\ collected' = <<>>
    /\ wire' = <<>>
    /\ app' = "none"
    /\ left' = 0
    /\ UNCHANGED <<stopVars, resolveVars, threads>>

\* lines 131-138: GET of the main page, the line with the platforms
LoadPage ==
    /\ pc = "page"
    /\ \E status \in {StatusOk, StatusOk + 1}, line \in BOOLEAN :
          IF status # StatusOk
          THEN Raise("ConnError") /\ UNCHANGED locals
          ELSE IF ~line
          THEN Raise("ParseError") /\ UNCHANGED locals
          ELSE /\ pc' = "check"
               /\ locals' = [locals EXCEPT
                                !.platform = PlatformText(locals.valid)]
               /\ UNCHANGED raised
    /\ UNCHANGED <<op, stopVars, resolveVars, wire, app, left, threads,
                   msgcounter, collected>>

\* lines 143-144: "if not nastupiste in platform", both of them str
CheckPlatform ==
    /\ pc = "check"
    /\ IF IsIn(locals.nastupiste, locals.platform)
       THEN pc' = "script" /\ UNCHANGED raised
       ELSE Raise("ParseError")
    /\ UNCHANGED <<op, stopVars, resolveVars, threadVars>>

\* line 149: GET of the transport script
GetTransportScript ==
    /\ pc = "script"
    /\ pc' = "poll"
    /\ wire' = Append(wire, "script")
    /\ UNCHANGED <<op, raised, stopVars, resolveVars, locals, app, left,
                   threads, msgcounter, collected>>

\* lines 153-155: one polling GET; r.cookies['io'] raises KeyError when
\* the answer sets no such cookie
PollOnce ==
    /\ pc = "poll"
    /\ wire' = Append(wire, "poll")
    /\ \E cookie \in BOOLEAN :
          IF cookie
          THEN /\ pc' = "confirm"
               /\ locals' = [locals EXCEPT !.io = SessionId]
               /\ UNCHANGED raised
          ELSE Raise("KeyError") /\ UNCHANGED locals
    /\ UNCHANGED <<op, stopVars, resolveVars, app, left, threads,
                   msgcounter, collected>>

\* line 162: the polling GET that carries the session id
ConfirmOnce ==
    /\ pc = "confirm"
    /\ pc' = "connect"
    /\ wire' = Append(wire, "confirm")
    /\ UNCHANGED <<op, raised, stopVars, resolveVars, locals, app, left,
                   threads, msgcounter, collected>>

\* lines 243-248: run_forever connects and calls on_open; when the
\* connection cannot be made it calls on_error and returns
RunForever ==
    /\ pc = "connect"
    /\ \E made \in BOOLEAN :
          IF made
          THEN pc' = "on_open" /\ app' = "open" /\ UNCHANGED left
          ELSE pc' = "wait" /\ app' = "closed" /\ left' = ReturnDelay
    /\ UNCHANGED <<op, raised, stopVars, resolveVars, locals, wire, threads,
                   msgcounter, collected>>

\* a thread that on_open has just started: in run's sleep(1), line 211
NewThread == [pc |-> "sleep1", left |-> ProbeDelay, ws |-> "open"]

\* lines 226-228: on_open starts the thread running run, then sleeps
OnOpen ==
    /\ pc = "on_open"
    /\ threads' = Append(threads, NewThread)
    /\ pc' = "post"
    /\ left' = PostDelay
    /\ UNCHANGED <<op, raised, stopVars, resolveVars, locals, wire, app,
                   msgcounter, collected>>

\* the log with x sent: every kind of request or frame is logged at its
\* first sending
Sent(w, x) ==
    IF \E i \in DOMAIN w : w[i] = x THEN w ELSE Append(w, x)

\* lines 229-235: on_open's POST of the subscribe frame
Post ==
    /\ pc = "post"
    /\ left = 0
    /\ wire' = Sent(wire, "post")
    /\ pc' = "serve"
    /\ UNCHANGED <<op, raised, stopVars, resolveVars, locals, app, left,
                   threads, msgcounter, collected>>

\* messages of the push connection: the probes' answers, which hold no
\* 'nastupiste', and the boards of a platform
ProbeMessage == [kind |-> "probe", nastupiste |-> 0, tab |-> <<>>]
BoardMessage(q, tab) == [kind |-> "board", nastupiste |-> q, tab |-> tab]
Arrival(linka, online) == [linka |-> StrOfInt(linka), online |-> online]

\* lines 186-192: the online arrivals of the routes asked for
Wanted(tab, linkalist) ==
    SelectSeq(tab, LAMBDA x :
        x.online /\ \E i \in DOMAIN linkalist : linkalist[i] = x.linka)

\* ws.close() in a callback: run_forever ends, line 250 sleeps
CloseApp ==
    /\ app' = "closed"
    /\ threads' = WsBecomes(threads, app, "closed")
    /\ pc' = "wait"
    /\ left' = ReturnDelay

\* lines 167-200: on_message
OnMessage(message) ==
    IF message.kind = "probe"
    THEN UNCHANGED <<pc, app, left, threads, msgcounter, collected>>
    ELSE LET over == msgcounter + 1 > Len(locals.platform) + CounterSlack
             mine == StrOfInt(message.nastupiste) = locals.nastupiste
         IN  /\ msgcounter' = msgcounter + 1
             /\ collected' = IF mine
                             THEN collected \o Wanted(message.tab, locals.linka)
                             ELSE collected
             /\ IF over \/ mine
                THEN CloseApp
                ELSE UNCHANGED <<pc, app, left, threads>>

\* run_forever's loop hands a message to on_message
Serve(messages) ==
    /\ pc = "serve"
    /\ app = "open"
    /\ \E message \in messages : OnMessage(message)
    /\ UNCHANGED <<op, raised, stopVars, resolveVars, locals, wire>>

\* run_forever finds the connection lost: on_error, and it ends
ServeError ==
    /\ pc = "serve"
    /\ app = "lost"
    /\ CloseApp
    /\ UNCHANGED <<op, raised, stopVars, resolveVars, locals, wire,
                   msgcounter, collected>>

\* the push connection is lost while the call runs
ConnDrop ==
    /\ pc \in {"post", "serve"}
    /\ app = "open"
    /\ app' = "lost"
    /\ threads' = WsBecomes(threads, "open", "lost")
    /\ UNCHANGED <<pc, op, raised, stopVars, resolveVars, locals, wire, left,
                   msgcounter, collected>>

\* lines 250-252: sleep(1), return self.result
ReturnResult ==
    /\ pc = "wait"
    /\ left = 0
    /\ pc' = "done"
    /\ UNCHANGED <<op, raised, stopVars, resolveVars, threadVars>>

\* lines 214-220: one turn of run's "while True": send('5'), the closed
\* socket's exception passed over, an OSError ending the thread; sleep(30)
Loop(th) ==
    CASE th.ws = "lost" -> [th EXCEPT !.pc = "dead"]
      [] OTHER -> [th EXCEPT !.pc = "sleep30", !.left = KeepaliveSleep]

\* lines 210-220: the i-th thread, its sleep over, goes on to its next one
Run(i) ==
    /\ threads[i].pc # "dead"
    /\ threads[i].left = 0
    /\ LET th == threads[i] IN
       IF th.pc = "sleep1"
       THEN \* line 212, outside any try
            IF th.ws = "open"
            THEN /\ wire' = Sent(wire, "2probe")
                 /\ threads' = [threads EXCEPT ![i] =
                        [th EXCEPT !.pc = "sleep10", !.left = UpgradeDelay]]
            ELSE /\ threads' = [threads EXCEPT ![i] = [th EXCEPT !.pc = "dead"]]
                 /\ UNCHANGED wire
       ELSE /\ threads' = [threads EXCEPT ![i] = Loop(th)]
            /\ wire' = IF th.ws = "open" THEN Sent(wire, "5") ELSE wire
    /\ UNCHANGED <<pc, op, raised, stopVars, resolveVars, locals, app, left,
                   msgcounter, collected>>

RunThread == \E i \in DOMAIN threads : Run(i)

\* the sleep that has d seconds left, one second later
Slept(d) == IF d > 0 THEN d - 1 ELSE 0

\* a second passes for the sleeps of ImhdBa's main flow and threads
Second ==
    /\ left > 0 \/ \E i \in DOMAIN threads : threads[i].left > 0
    /\ left' = Slept(left)
    /\ threads' = [i \in DOMAIN threads |->
                      [threads[i] EXCEPT !.left = Slept(@)]]
    /\ UNCHANGED <<pc, op, raised, stopVars, resolveVars, locals, wire, app,
                   msgcounter, collected>>

---------------------------------------------------------------------------
(* The specification of the subscription: a caller that calls fetch and    *)
(* get_data in any order, the server sending any frame of FetchFrames.     *)

FetchBatches ==
    { <<Record(201, 1500, 5, 0)>>, <<Record(202, 4000, 0, 7)>> }
FetchFrames == Frames(FetchBatches)
FetchConns == {Scalar(PyInt(201))}
FetchNows == {0}

\* Stop.__init__, lines 121-139, called with the id of a stop: line 131 is
\* self.busstopid = str(busstopid)
Construct(id) ==
    /\ pc = "idle"
    /\ op = "none"
    /\ subFrom = "none"
    /\ hsLog = <<>>
    /\ hasWs = FALSE
    /\ chan = "none"
    /\ io = NoSession
    /\ sidLog = <<>>
    /\ busstopid = StrOfInt(id)
    /\ reqdata = NoBody
    /\ sinceTimer = NoTimer
    /\ sinceResp = 0
    /\ watch = 0
    /\ lastRecv = NoRecv
    /\ data = <<>>
    /\ accepted = {}
    /\ args = NoArgs
    /\ idx = 0
    /\ now = 0
    /\ result = <<>>
    /\ raised = "none"

\* the Stop of the stop that fetch and get_data are followed for
StopInit == Construct(BusStopId)

\* no module function has been called; src/ivtt2txt.py is not loaded as
\* __main__
Unresolved ==
    /\ query = Unbound
    /\ call = NoCall
    /\ ret = NoRet

\* ImhdBa.__init__, src/ivtt2txt.py lines 97-102; no call made yet
ImhdBaInit ==
    /\ locals = NoLocals
    /\ wire = <<>>
    /\ app = "none"
    /\ left = 0
    /\ threads = <<>>
    /\ msgcounter = 0
    /\ collected = <<>>

Init == StopInit /\ Unresolved /\ ImhdBaInit

Next ==
    \/ CallFetch
    \/ CallGetData(FetchConns, BOOLEAN, {FALSE})
    \/ GetScript
    \/ PollSession
    \/ ConfirmSession
    \/ PostSubscribe
    \/ CreateConnection
    \/ Connect
    \/ Upgrade
    \/ Subscribed
    \/ Sleep
    \/ LoopHead
    \/ Keepalive
    \/ Recv(FetchFrames)
    \/ RecvError
    \/ Return
    \/ Lookup
    \/ Extract(FetchNows)
    \/ Finish
    \/ Tick
    \/ ConnLost

Spec == Init /\ [][Next]_vars

---------------------------------------------------------------------------
(* The specification of the extraction: get_data without force_update on   *)
(* a cache that earlier fetches filled, for the conn, resolve_names and    *)
(* clock readings below.                                                   *)

ExampleBatch ==
    << Record(201, 1500, 5, 0), Record(202, 5500, 0, 0),
       Record(204, 120000, 0, 7) >>
ScenarioBatch == << Record(1, 122000, 5, 0) >>
DataBatches == {ExampleBatch, ScenarioBatch}
DataConns ==
    { Scalar(PyInt(201)), Scalar(PyStr(1)),
      List(<<PyStr(201), PyInt(204)>>), List(<<>>) }
DataNows == {2000}

InitData ==
    /\ pc = "idle"
    /\ op = "none"
    /\ subFrom = "none"
    /\ data \in UNION {[S -> DataBatches] : S \in SUBSET Platforms}
    /\ accepted = DOMAIN data
    /\ hasWs = (accepted # {})
    /\ hsLog = IF hasWs THEN <<1, 2, 3, 4, 5>> ELSE <<>>
    /\ chan = IF hasWs THEN "open" ELSE "none"
    /\ io = NoSession
    /\ sidLog = <<>>
    /\ busstopid = StrOfInt(BusStopId)
    /\ reqdata = NoBody
    /\ sinceTimer = IF hasWs THEN FetchSleep ELSE NoTimer
    /\ sinceResp = 0
    /\ watch = 0
    /\ lastRecv = NoRecv
    /\ args = NoArgs
    /\ idx = 0
    /\ now = 0
    /\ result = <<>>
    /\ raised = "none"
    /\ Unresolved
    /\ ImhdBaInit

NextData ==
    \/ CallGetData(DataConns, {FALSE}, BOOLEAN)
    \/ Lookup
    \/ Extract(DataNows)
    \/ Finish

SpecData == InitData /\ [][NextData]_vars

---------------------------------------------------------------------------
(* The specification of the name resolution: busstop2id of either module, *)
(* called with any of the names, the global query of src/ivtt2txt.py      *)
(* unbound (the module imported) or bound to a name (by its __main__).     *)

InitResolve ==
    /\ StopInit
    /\ query \in {Unbound} \cup Names
    /\ call = NoCall
    /\ ret = NoRet
    /\ ImhdBaInit

NextResolve ==
    \/ CallBusstop2id(Modules, Names)
    \/ Search
    \/ Select
    \/ Finish

SpecResolve == InitResolve /\ [][NextResolve]_vars

---------------------------------------------------------------------------
(* The specification of the handshake for any stop: a Stop constructed     *)
(* for one of the stop ids, and its first fetch as far as _subscribe gets. *)

StopIds == 0 .. MaxStopId

InitSubscribe ==
    /\ \E id \in StopIds : Construct(id)
    /\ Unresolved
    /\ ImhdBaInit

NextSubscribe ==
    \/ CallFetch
    \/ GetScript
    \/ PollSession
    \/ ConfirmSession
    \/ PostSubscribe
    \/ CreateConnection
    \/ Connect
    \/ Upgrade

SpecSubscribe == InitSubscribe /\ [][NextSubscribe]_vars

---------------------------------------------------------------------------
(* The specification of the threaded variant: calls of                     *)
(* ImhdBa.get_arrival_time for a stop whose only platform is 11, the       *)
(* threads they start running on.  A thread whose sleep is over goes on,   *)
(* and time passes.                                                        *)

ThreadStops == { <<11>> }
ThreadRoutes == {201}
ThreadRequests == {1, 3, 11}
ThreadMessages ==
    {ProbeMessage}
        \cup {BoardMessage(11, tab) :
                 tab \in {<<Arrival(201, FALSE)>>,
                          <<Arrival(201, TRUE), Arrival(202, TRUE)>>}}

InitThreaded == StopInit /\ Unresolved /\ ImhdBaInit

NextThreaded ==
    \/ CallGetArrivalTime(ThreadStops, ThreadRoutes, ThreadRequests)
    \/ LoadPage
    \/ CheckPlatform
    \/ GetTransportScript
    \/ PollOnce
    \/ ConfirmOnce
    \/ RunForever
    \/ OnOpen
    \/ Post
    \/ Serve(ThreadMessages)
    \/ ServeError
    \/ ConnDrop
    \/ ReturnResult
    \/ Finish
    \/ RunThread
    \/ Second

SpecThreaded ==
    InitThreaded /\ [][NextThreaded]_vars
        /\ WF_vars(RunThread) /\ WF_vars(Second)

---------------------------------------------------------------------------
(* Properties *)

FullHandshake == <<1, 2, 3, 4, 5>>
HandshakePcs ==
    {"hs1", "hs2", "hs3", "hs4", "hs5", "bind", "ack", "subscribed"}
FetchPcs == HandshakePcs \cup {"sleep", "loop", "keepalive", "recv", "return"}

\* the push channel is up and its handshake is over
Connected == hasWs /\ chan = "open" /\ pc \notin HandshakePcs

(* C1: in fetch(platform), every frame that is received, parses as JSON    *)
(* and holds the watched key leaves the cached batch of the platform equal *)
(* to the frame's batch and the inactivity timer reset.                    *)
C1_MatchingFrameReplacesCache ==
    [][(pc = "recv" /\ lastRecv'.seen = "hit")
          => /\ watch \in DOMAIN data'
             /\ data'[watch] = lastRecv'.batch
             /\ sinceResp' = 0]_vars

(* C2: fetch returns once 3 seconds have passed with no frame for the      *)
(* watched key; it is never still waiting in recv when more than 3 seconds *)
(* have passed since the inactivity timer was last reset.                  *)
C2_ReturnsAfterSilence ==
    pc = "recv" => sinceResp <= SilenceBound

(* C3: when the keepalive send fails because the connection is gone, fetch *)
(* starts the handshake again and no exception reaches the caller.         *)
C3_KeepaliveFailureRehandshakes ==
    [][(pc = "keepalive" /\ chan # "open")
          => (pc' = "hs1" /\ raised' = "none")]_vars

(* C4: a receive error other than a JSON parse failure makes fetch run the *)
(* handshake again from its first step, with no exception reaching the     *)
(* caller and the cache unchanged; once that handshake has run its five    *)
(* steps fetch is back in its receive loop.                                *)
C4_ReceiveErrorRehandshakes ==
    [][/\ (pc = "recv" /\ chan # "open")
            => /\ pc' = "hs1"
               /\ raised' = "none"
               /\ data' = data
               /\ op' = op
       /\ (pc = "subscribed" /\ subFrom = "recv")
            => /\ hsLog = FullHandshake
               /\ pc' = "loop"
               /\ raised' = "none"
               /\ data' = data]_vars

\* the handshake that a receive error started is over, nothing raised, the
\* cache still filled
C4_Witness ==
    /\ pc = "subscribed"
    /\ subFrom = "recv"
    /\ hsLog = FullHandshake
    /\ raised = "none"
    /\ data # <<>>

(* C5: a frame that is not JSON is discarded: the cache of every platform  *)
(* is unchanged, no handshake is started, nothing is raised, and the loop  *)
(* goes on to its next turn.                                               *)
C5_MalformedFrameDiscarded ==
    [][(pc = "recv" /\ lastRecv'.seen = "nonjson")
          => /\ data' = data
             /\ accepted' = accepted
             /\ pc' = "loop"
             /\ raised' = "none"
             /\ hsLog' = hsLog]_vars

\* a malformed frame was received, the loop goes on, the cache is kept
C5_Witness ==
    /\ lastRecv.seen = "nonjson"
    /\ pc = "loop"
    /\ raised = "none"
    /\ data # <<>>

\* the cached batch of platform q is the same before and after the step
Untouched(q) ==
    /\ (q \in DOMAIN data') = (q \in DOMAIN data)
    /\ q \in DOMAIN data => data'[q] = data[q]

(* C6: a frame with no entry for the watched key leaves the cache of every *)
(* platform and the inactivity timer as they were; fetch(p) never writes   *)
(* the cache of a platform other than p.                                   *)
C6_OtherKeysLeaveCache ==
    [][/\ (pc = "recv" /\ lastRecv'.seen = "miss")
             => (data' = data /\ sinceResp' = sinceResp)
       /\ pc \in FetchPcs
             => \A q \in Platforms \ {watch} : Untouched(q)]_vars

\* a frame without the watched key was received while the cache was filled
C6_Witness ==
    /\ lastRecv.seen = "miss"
    /\ pc = "loop"
    /\ data # <<>>

(* C7: while the subscription is connected, no more than 30 seconds pass   *)
(* without the client sending on the channel: a "2" ping follows every 30  *)
(* seconds of idle time.                                                   *)
C7_PingEveryInterval ==
    Connected => sinceTimer <= KeepaliveInterval


\* a requested route, coerced to a string, is the record's route field
Requested(linka, raw) ==
    \E i \in DOMAIN raw.items : linka = PyStr(raw.items[i].v)

\* the entries of the batch whose route is requested, in batch order
Matching(batch, raw) ==
    SelectSeq(batch, LAMBDA x : Requested(x.linka, raw))

\* toffset is cas/1000 - now exactly
ExactOffset(toffset, cas, t) ==
    toffset * MsPerSecond = cas - t

\* toffset is cas/1000 - now with its fraction cut off
TruncatedOffset(toffset, cas, t) ==
    LET d == cas - t IN
    IF d >= 0
    THEN toffset * MsPerSecond <= d /\ d < (toffset + 1) * MsPerSecond
    ELSE (toffset - 1) * MsPerSecond < d /\ d <= toffset * MsPerSecond

\* a step of get_data's loop: a requested entry is appended with an offset
\* that satisfies Off, any other is passed over; at the return the result
\* is the requested entries of the batch, in batch order
ExtractStepOk(Off(_, _, _)) ==
    pc = "extract" =>
        IF idx > Len(data[watch])
        THEN /\ pc' = "done"
             /\ result' = result
             /\ result = Matching(data[watch], args.raw)
        ELSE LET x == data[watch][idx] IN
             IF Requested(x.linka, args.raw)
             THEN \/ args.resolve /\ pc' = "raise"
                  \/ /\ Len(result') = Len(result) + 1
                     /\ SubSeq(result', 1, Len(result)) = result
                     /\ LET r == result'[Len(result')] IN
                            /\ r.linka = x.linka
                            /\ r.cas = x.cas
                            /\ Len(r.toffset) = 1
                            /\ Off(r.toffset[1], x.cas, now')
                            /\ data'[watch][idx] = r
             ELSE result' = result /\ data' = data

(* C8 as stated: get_data returns exactly the entries of the cached batch  *)
(* whose route is one of the requested routes, in batch order, each with   *)
(* toffset = cas/1000 - now.                                               *)
C8_ExactOffset ==
    [][ExtractStepOk(ExactOffset)]_vars

(* C8 as amended: get_data returns exactly the entries of the cached batch *)
(* whose route is one of the requested routes, in batch order, each with   *)
(* toffset = cas/1000 - now cut off towards zero to a whole number of      *)
(* seconds.                                                                *)
C8_TruncatedOffset ==
    [][ExtractStepOk(TruncatedOffset)]_vars

\* routes ["201", 204] against the entries 201, 202, 204: the 201 and the
\* 204 entry are returned, the first with -0.5 s cut off to 0
C8_Witness ==
    /\ pc = "done"
    /\ args.raw = List(<<PyStr(201), PyInt(204)>>)
    /\ Len(data[watch]) = 3
    /\ Len(result) = 2
    /\ result[1].linka = PyStr(201)
    /\ result[1].toffset = <<0>>
    /\ result[2].linka = PyStr(204)
    /\ result[2].toffset = <<118>>

(* C9: get_data raises the lookup failure, and returns nothing, exactly    *)
(* when no frame has ever been accepted for its platform; once one has     *)
(* been accepted it does not raise that failure.                           *)
C9_LookupFailsIffNeverPopulated ==
    [][/\ pc = "lookup"
            => IF watch \in accepted
               THEN pc' = "extract" /\ raised' = "none"
               ELSE pc' = "raise" /\ raised' = "KeyError" /\ result' = <<>>
       /\ (raised' = "KeyError" /\ raised # "KeyError")
            => (pc = "lookup" /\ watch \notin accepted)
       /\ accepted \subseteq accepted']_vars

\* get_data raises for a platform never populated while another one is
C9_Witness ==
    /\ pc = "raise"
    /\ raised = "KeyError"
    /\ op = "get_data"
    /\ accepted # {}

\* what the claim has a destination field become
NamedField(v) ==
    IF v.t = "int" /\ v.id \in DOMAIN StopNames
    THEN DestName(StopNames[v.id])
    ELSE v

(* C10: with resolve_names on, every returned record has each non-zero     *)
(* destination id (cielZastavka, lastZ) replaced by the display name the   *)
(* lookup maps the id to; fields that are 0 stay 0.                        *)
C10_NamesReplaceIds ==
    [][(pc = "extract" /\ args.resolve /\ Len(result') = Len(result) + 1)
          => LET x == data[watch][idx]
                 r == result'[Len(result')]
             IN  /\ r.cielZastavka = NamedField(x.cielZastavka)
                 /\ r.lastZ = NamedField(x.lastZ)]_vars

(* C11: busstop2id(name) returns the id of the matching stop when the      *)
(* site's search for the name has exactly one match, and raises NoMatch    *)
(* when it has none or more than one.                                      *)
C11_UniqueMatchResolved ==
    [][(op = "busstop2id" /\ pc \in {"search", "select"}
            /\ pc' \in {"done", "raise"})
          => LET m == SiteMatches[call.busstop] IN
             IF Cardinality(m) = 1
             THEN pc' = "done" /\ ret' # NoRet /\ ret'[1].v \in m
             ELSE pc' = "raise" /\ raised' = "NoMatch"]_vars

(* C12: ImhdBa.get_arrival_time rejects with ParseError, before any        *)
(* handshake request is sent, a requested platform that is not one of the  *)
(* stop's valid platforms, and accepts one that is.                        *)
C12_PlatformValidated ==
    [][pc = "check"
          => /\ wire = <<>>
             /\ IF \E i \in DOMAIN locals.valid : locals.valid[i] = locals.raw
                THEN pc' = "script" /\ raised' = "none"
                ELSE pc' = "raise" /\ raised' = "ParseError" /\ wire' = <<>>]_vars

(* C19: in get_arrival_time the subscribe POST is sent before the thread   *)
(* started by on_open sends "2probe", however the two are interleaved.     *)
C19_PostBeforeProbe ==
    \A i \in DOMAIN wire :
        wire[i] = "2probe" => \E j \in 1 .. (i - 1) : wire[j] = "post"

(* C20: a thread started by on_open terminates some time after its push    *)
(* connection has been closed.                                             *)
C20_ThreadTerminates ==
    \A i \in 1 .. MaxCalls :
        (i \in DOMAIN threads /\ threads[i].ws = "closed")
            ~> (i \in DOMAIN threads /\ threads[i].pc = "dead")

\* the first n steps of the handshake, in order
Done(n) == SubSeq(FullHandshake, 1, n)

\* n requests have carried a session id, each the one of the cookie
Carried(n) ==
    /\ io \in SessionIds
    /\ Len(sidLog) = n
    /\ \A i \in DOMAIN sidLog : sidLog[i] = io

(* C13: _subscribe performs its steps in the order script GET, polling     *)
(* GETs until the io cookie is set, confirming GET, subscribe POST, push   *)
(* connection; the confirming GET (3), the POST (4) and the connection (5) *)
(* carry the session id of the cookie, which is never missing or empty;    *)
(* no connection is open, and none is connected, before the POST.          *)
C13_HandshakeInOrder ==
    /\ pc = "hs2" => hsLog = Done(1)
    /\ pc = "hs3" => hsLog = Done(2) /\ Carried(0)
    /\ pc = "hs4" => hsLog = Done(3) /\ Carried(1)
    /\ pc = "hs5" => hsLog = Done(4) /\ Carried(2)
    /\ pc \in {"bind", "ack"} => hsLog = Done(4) /\ Carried(3)
    /\ pc = "subscribed" => hsLog = FullHandshake
    /\ chan = "open" => Len(hsLog) >= 4
    /\ Connected => hsLog = FullHandshake

\* a handshake started by a failed keepalive has sent its three requests
\* with the session id of its cookie and waits for the acknowledgment
C13_Witness ==
    /\ pc = "ack"
    /\ subFrom = "send"
    /\ hsLog = Done(4)
    /\ sidLog = <<"sidB", "sidB", "sidB">>
    /\ data # <<>>

(* C14: the handshake of _subscribe is completed ("5" sent, the channel    *)
(* connected) only when the frame received after "2probe" was "3probe".    *)
C14_UpgradeOnlyAfterAck ==
    pc = "subscribed" => lastRecv.seen = "3probe"

(* C15: a frame that is JSON but has no second element, or whose second    *)
(* element is no mapping, is discarded: the cache is unchanged, nothing is *)
(* raised and fetch goes on (or returns, the silence bound being passed).  *)
C15_PartialFrameDiscarded ==
    [][(pc = "recv" /\ lastRecv'.seen \in {"short", "scalar", "list"})
          => /\ data' = data
             /\ raised' = "none"
             /\ pc' \in {"loop", "return"}]_vars

\* a handshake is started only by the first fetch or by a send or receive
\* error
StartedOnlyOnError ==
    (pc' = "hs1" /\ pc # "hs1")
        => \/ pc = "idle" /\ ~hasWs
           \/ pc \in {"keepalive", "recv"} /\ chan # "open"

(* C16: a handshake is started only by the first fetch or by a send or     *)
(* receive error, and whenever a call is at ws.recv() in fetch's loop the  *)
(* channel it receives on has completed its handshake.                     *)
C16_HandshakeOnceThenOnError ==
    [][/\ StartedOnlyOnError
       /\ pc' = "recv" => hsLog' = FullHandshake]_vars

\* the push connections that are open on the client's side: the one
\* self.ws is bound to unless closed, and a new one not yet bound
OpenConnections ==
    (IF chan \in {"open", "reset"} THEN 1 ELSE 0)
        + (IF pc = "bind" THEN 1 ELSE 0)

(* C17: a Stop has at most one open push connection at any time: the       *)
(* previous connection is closed before a rehandshake opens the new one.   *)
C17_AtMostOneConnection ==
    OpenConnections <= 1

(* C18: get_data without force_update leaves the cache as it is: no step   *)
(* of such a call changes the cached batch of any platform.                *)
C18_GetDataLeavesCache ==
    [][(op = "get_data" /\ pc \in {"lookup", "extract"}) => data' = data]_vars

---------------------------------------------------------------------------
(* The body of the subscribe POST *)

\* the frame the POST is to carry for a stop id: 42["req",[<StopId>,["*"]]]
ClaimedFrame(id) ==
    <<"4", "2", "[", "\"", "r", "e", "q", "\"", ",", "[">> \o id
        \o <<",", "[", "\"", "*", "\"", "]", "]", "]">>

Whitespace == {" ", "\t", "\n", "\r"}

RECURSIVE LStrip(_)
LStrip(s) ==
    IF s # <<>> /\ Head(s) \in Whitespace THEN LStrip(Tail(s)) ELSE s

RECURSIVE RStrip(_)
RStrip(s) ==
    IF s # <<>> /\ s[Len(s)] \in Whitespace
    THEN RStrip(SubSeq(s, 1, Len(s) - 1))
    ELSE s

\* s without its surrounding whitespace
Strip(s) == LStrip(RStrip(s))

\* the characters that one byte encodes, in UTF-8 as in Latin-1
OneByteChars ==
    {DigitChars[i] : i \in DOMAIN DigitChars}
        \cup {"[", "]", "\"", ",", "*", ":", "r", "e", "q"} \cup Whitespace

RECURSIVE ByteLength(_)
\* the number of bytes that s is sent as
ByteLength(s) ==
    IF s = <<>> THEN 0
    ELSE (IF Head(s) \in OneByteChars THEN 1 ELSE 2) + ByteLength(Tail(s))

\* the place of the first colon of a body (0 when it has none)
ColonAt(body) ==
    IF \E i \in DOMAIN body : body[i] = ":"
    THEN CHOOSE i \in DOMAIN body :
            body[i] = ":" /\ \A j \in 1 .. (i - 1) : body[j] # ":"
    ELSE 0

LengthOf(body) == SubSeq(body, 1, ColonAt(body) - 1)
FrameOf(body) == SubSeq(body, ColonAt(body) + 1, Len(body))

\* C21: for every stop id, the body that _subscribe POSTs is
\* <n>:42["req",[<StopId>,["*"]]], the frame after the colon being the
\* claimed frame with its surrounding whitespace stripped and n the decimal
\* numeral of the byte length of exactly that frame.
C21_LengthPrefixedFrame ==
    pc \in {"hs5", "bind", "ack"} =>
        /\ ColonAt(reqdata) > 0
        /\ FrameOf(reqdata) = Strip(ClaimedFrame(busstopid))
        /\ LengthOf(reqdata) = StrOfInt(ByteLength(FrameOf(reqdata)))

\* the POST has gone out for the stop 100: 21:42["req",[100,["*"]]]
C21_Witness ==
    /\ pc = "hs5"
    /\ hsLog = <<1, 2, 3, 4>>
    /\ busstopid = <<"1", "0", "0">>
    /\ reqdata = <<"2", "1", ":", "4", "2", "[", "\"", "r", "e", "q", "\"",
                   ",", "[", "1", "0", "0", ",", "[", "\"", "*", "\"", "]",
                   "]", "]">>

===========================================================================
